---- MODULE Spec2Model ----
(***************************************************************************)
(* The strategy engine of the trend-following options strategy             *)
(* (src/strategy_engine.py): the polling control loop of                   *)
(* StrategyEngine.start, strike selection, range finalization, the per-leg *)
(* entry / stop-loss / re-entry logic, order placement with its timeout,   *)
(* and the state file strategy_state.json with process crash and restart.  *)
(* Beside it: the API server's handlers for the settings and the run flag   *)
(* (src/main.py, src/config_manager.py), and the arithmetic of strike      *)
(* selection as functions of their inputs.                                 *)
(*                                                                         *)
(* Time is the clock's minute of the day, 0 .. DayLen-1; prices are        *)
(* integers chosen so that every percentage the code computes is exact.    *)
(* The keys current_phase, selected_expiry and exit_triggered of the state *)
(* dict and the key strike of a leg are never read by the engine and are   *)
(* left out.                                                               *)
(* Environment assumptions: the settings file is readable and well formed  *)
(* (no KeyError on a settings key), and the market data base holds no tick *)
(* for token 0 (the placeholder legs' token).                              *)
(***************************************************************************)
EXTENDS Integers, Sequences, FiniteSets, TLC

VARIABLES
    state,      \* StrategyEngine.state: [status, instrument, legs]
    file,       \* strategy_state.json: <<>> (absent) or <<document>>
    clock,      \* minute of the day
    pc,         \* position of the control loop within start()
    running,    \* config["is_running"]
    paper,      \* config["strategy_settings"]["paper_trading"]
    opened,     \* per leg: the last entry order the gateway accepted (history)
    gateway,    \* the broker's order gateway: "up", or "down" (never answers)
    today,      \* selections and finalizations since midnight (history)
    task,       \* per leg: the coroutine fanned out for it in this tick
    late,       \* order calls that timed out and are still in flight
    gwEntries,  \* per leg: entry orders the gateway confirmed today
    gwExits,    \* per leg: exit order calls made to the gateway today
    gwFills,    \* per leg: exit orders the gateway confirmed today
    settings,   \* config.json without its is_running key
    reqs,       \* per API client: the request being handled
    calc,       \* the call of a pure function: its inputs and its result
    restarts,   \* crashes since the last daily reset
    ev,         \* the operation the last step invoked (history)
    saved,      \* the dict last handed to save_state (history)
    maxed       \* legs whose stop-loss fired at entries_count 2 today (history)

vars == <<state, file, clock, pc, running, paper, opened, gateway, today, task, late, gwEntries,
          gwExits, gwFills, settings, reqs, calc, restarts, ev, saved, maxed>>

----------------------------------------------------------------------------
(* Bounds of the model *)

DayLen == 4
MaxRestarts == 1
MaxCands == 3
MaxSpot == 60
MaxWindow == 2
MaxPerDay == 2

(* Settings (config.json, read through ConfigManager) *)

Legs == {"ce", "pe"}
Instrument == "NIFTY"
NoneVal == "None"

CheckTime == 0
GapWindow == 1
ExitTime == 1
ExitWindow == 1
StartTime == 2
BufferMins == 1
EndTime == 3

SlPct == 20
EntryTriggerPct == 10
ReentryTriggerPct == 20

LegAction(l) == IF l = "ce" THEN "BUY" ELSE "SELL"
LegLots(l) == IF l = "ce" THEN 1 ELSE 2
LegToken(l) == IF l = "ce" THEN 11 ELSE 12

(* Market data: live prices (0 stands for None / stale) and range data *)

Prices == {110, 120, 150}
PricesOrNone == Prices \cup {0}
RangeData == {[high |-> 100, low |-> 80]}

----------------------------------------------------------------------------
(* json.dump / json.load of the state dict *)

StrKeys == {"status", "symbol", "action", "exit_reason"}

RECURSIVE Digits(_)
Digits(n) == IF n < 10 THEN <<n>> ELSE Append(Digits(n \div 10), n % 10)

RECURSIVE ParseDigits(_)
ParseDigits(ds) ==
    IF Len(ds) = 0 THEN 0
    ELSE 10 * ParseDigits(SubSeq(ds, 1, Len(ds) - 1)) + ds[Len(ds)]

JStr(s) == IF s = NoneVal THEN [t |-> "null"] ELSE [t |-> "string", v |-> s]
JNum(n) == [t |-> "number", v |-> Digits(n)]
UnStr(j) == IF j.t = "null" THEN NoneVal ELSE j.v
UnNum(j) == ParseDigits(j.v)

DumpLeg(leg) ==
    [k \in DOMAIN leg |-> IF k \in StrKeys THEN JStr(leg[k]) ELSE JNum(leg[k])]

LoadLeg(jleg) ==
    [k \in DOMAIN jleg |-> IF k \in StrKeys THEN UnStr(jleg[k]) ELSE UnNum(jleg[k])]

json_dump(s) ==
    [status |-> JStr(s.status),
     instrument |-> JStr(s.instrument),
     legs |-> [l \in DOMAIN s.legs |-> DumpLeg(s.legs[l])]]

json_load(doc) ==
    [status |-> UnStr(doc.status),
     instrument |-> UnStr(doc.instrument),
     legs |-> [l \in DOMAIN doc.legs |-> LoadLeg(doc.legs[l])]]

(* save_state: the whole state dict replaces the file *)
save_state(s) == <<json_dump(s)>>

----------------------------------------------------------------------------
(* The state dict *)

NoLegs == [l \in {} |-> 0]

InitialState == [status |-> "IDLE", instrument |-> NoneVal, legs |-> NoLegs]

Placeholder_Unlabelled(l) ==
    [status |-> "", symbol |-> "Waiting...", token |-> 0,
     lots |-> LegLots(l), range_high |-> 0, range_low |-> 0,
     entry_price |-> 0, sl_price |-> 0]

Placeholder(l) ==
    [status |-> "IDLE", symbol |-> "Waiting...", token |-> 0,
     lots |-> LegLots(l), range_high |-> 0, range_low |-> 0,
     entry_price |-> 0, sl_price |-> 0]

SelectedLeg(l) ==
    [status |-> "WAITING_RANGE", symbol |-> l, token |-> LegToken(l),
     action |-> LegAction(l), lots |-> LegLots(l),
     range_high |-> 0, range_low |-> 0, entry_price |-> 0, sl_price |-> 0,
     sl_pct |-> SlPct, entry_trigger_pct |-> EntryTriggerPct,
     reentry_trigger_pct |-> ReentryTriggerPct, entries_count |-> 0]

(* dict item assignment d[k] = v *)
SetKey(d, k, v) == (k :> v) @@ d

NoTask == [st |-> "none", kind |-> "none", tag |-> "none", price |-> 0, res |-> "none"]
NoTasks == [l \in Legs |-> NoTask]
Zero == [l \in Legs |-> 0]
Ev(op, l) == [op |-> op, leg |-> l]
NoEv == Ev("none", "-")

(* start() has run; login: whether it logged in to the broker *)
Started(login) == [op |-> "start", leg |-> "-", login |-> login]

(* select_strikes returned True having picked the legs P *)
Selected(P) == [op |-> "select_ok", leg |-> "-", picked |-> P]

(* finalize_ranges found range data for the legs F and returned ret *)
Finalized(F, ret) == [op |-> "finalize", leg |-> "-", found |-> F, ret |-> ret]

(* a fan-out has read the live prices pr (0: none) *)
Quote(op, pr) == [op |-> op, leg |-> "-", pr |-> pr]

(* an order as execute_entry / execute_exit hand it to place_order: the    *)
(* quantity is leg lots * config["lots"] * lot_sizes[instrument], read from *)
(* the settings at the time of the order; settings "v2" have the global    *)
(* lots multiplier raised                                                  *)
LotSize == 15
GlobalLots(v) == IF v = "v2" THEN 2 ELSE 1
Opposite(action) == IF action = "BUY" THEN "SELL" ELSE "BUY"
OrderParams(kind, leg, v) ==
    [action |-> IF kind = "entry" THEN leg.action ELSE Opposite(leg.action),
     qty |-> leg.lots * GlobalLots(v) * LotSize]
NoOrder == [action |-> "-", qty |-> 0]
NoOrders == [l \in Legs |-> NoOrder]

(* what was done since midnight, counted up to MaxPerDay *)
NoCounts == [selected |-> 0, finalized |-> 0]
Once(n) == IF n < MaxPerDay THEN n + 1 ELSE n

NextMinute(t) == (t + 1) % DayLen

(* config.json: the settings (everything but is_running) take a few values *)
SettingsValues == {"v0", "v1", "v2"}
StoredSettings == "v0"
Config(flag, v) == [is_running |-> flag, settings |-> v]

(* the API server's request handlers, one per client connection *)
Clients == {"a", "b"}
NoRequest == [kind |-> "none", pc |-> "idle", arg |-> Config(FALSE, StoredSettings)]
NoRequests == [c \in Clients |-> NoRequest]

NoCall == [fn |-> "none"]

----------------------------------------------------------------------------
(* Time windows of the control loop *)

InGapWindow(t) == t >= CheckTime /\ t < CheckTime + GapWindow
InExitWindow(t) == t >= ExitTime /\ t < ExitTime + ExitWindow
(* time_range.start: settings "v1" put it at time_range.strategy_exit, so   *)
(* that the start window and the daily-exit window overlap                 *)
StartTimeOf(v) == IF v = "v1" THEN ExitTime ELSE StartTime
StartBuffer == (StartTimeOf(settings) + BufferMins) % DayLen
InStartWindow(t) == t >= StartTimeOf(settings) /\ t < StartBuffer

(* Pure parts of the leg logic *)

StopLossPrice_NoDirection(action, price, pct) == (price * (100 - pct)) \div 100

StopLossPrice(action, price, pct) ==
    IF action = "BUY" THEN (price * (100 - pct)) \div 100
    ELSE (price * (100 + pct)) \div 100

TriggerCrossed_Inclusive(leg, price, pct) ==
    price * 100 >= leg.range_high * (100 + pct)

TriggerCrossed(leg, price, pct) == price * 100 > leg.range_high * (100 + pct)

StopLossHit_BuyRule(leg, price) == price <= leg.sl_price

StopLossHit(leg, price) ==
    IF leg.action = "BUY" THEN price <= leg.sl_price ELSE price >= leg.sl_price

OrderTask(kind, tag, price) ==
    [st |-> "call", kind |-> kind, tag |-> tag, price |-> price, res |-> "none"]

LegDecision_EntryPctOnReentry(leg, price) ==
    IF price = 0 \/ "action" \notin DOMAIN leg THEN NoTask
    ELSE IF leg.status = "WAITING_ENTRY"
         THEN IF TriggerCrossed(leg, price, leg.entry_trigger_pct)
              THEN OrderTask("entry", "ENTRY_1", price) ELSE NoTask
    ELSE IF leg.status = "ACTIVE"
         THEN IF StopLossHit(leg, price)
              THEN OrderTask("exit", "SL_HIT", price) ELSE NoTask
    ELSE IF leg.status = "WAITING_REENTRY"
         THEN IF TriggerCrossed(leg, price, leg.entry_trigger_pct)
              THEN OrderTask("entry", "ENTRY_2", price) ELSE NoTask
    ELSE NoTask

LegDecision_PriceUnchecked(leg, price) ==
    IF "action" \notin DOMAIN leg THEN NoTask
    ELSE IF leg.status = "WAITING_ENTRY"
         THEN IF TriggerCrossed(leg, price, leg.entry_trigger_pct)
              THEN OrderTask("entry", "ENTRY_1", price) ELSE NoTask
    ELSE IF leg.status = "ACTIVE"
         THEN IF StopLossHit(leg, price)
              THEN OrderTask("exit", "SL_HIT", price) ELSE NoTask
    ELSE IF leg.status = "WAITING_REENTRY"
         THEN IF TriggerCrossed(leg, price, leg.reentry_trigger_pct)
              THEN OrderTask("entry", "ENTRY_2", price) ELSE NoTask
    ELSE NoTask

(* check_leg_logic up to the call of execute_entry / execute_exit: what the *)
(* evaluation of one leg decides with the live price it read.              *)
LegDecision(leg, price) ==
    IF price = 0 \/ "action" \notin DOMAIN leg THEN NoTask
    ELSE IF leg.status = "WAITING_ENTRY"
         THEN IF TriggerCrossed(leg, price, leg.entry_trigger_pct)
              THEN OrderTask("entry", "ENTRY_1", price) ELSE NoTask
    ELSE IF leg.status = "ACTIVE"
         THEN IF StopLossHit(leg, price)
              THEN OrderTask("exit", "SL_HIT", price) ELSE NoTask
    ELSE IF leg.status = "WAITING_REENTRY"
         THEN IF TriggerCrossed(leg, price, leg.reentry_trigger_pct)
              THEN OrderTask("entry", "ENTRY_2", price) ELSE NoTask
    ELSE NoTask

EntryFilled_StatusKept(leg, price) ==
    [leg EXCEPT !["entry_price"] = price,
                !["sl_price"] = StopLossPrice(leg.action, price, leg.sl_pct),
                !["entries_count"] = leg.entries_count + 1]

(* execute_entry after the order call: the leg when an order id came back *)
EntryFilled(leg, price) ==
    [leg EXCEPT !["status"] = "ACTIVE",
                !["entry_price"] = price,
                !["sl_price"] = StopLossPrice(leg.action, price, leg.sl_pct),
                !["entries_count"] = leg.entries_count + 1]

OrderIdReturned_TimeoutKept(res) == res # "fail"

(* `if order_id:` after the call, order_id being None on timeout or error *)
OrderIdReturned(res) == res \in {"ok", "paper"}

execute_entry_result(leg, price, res) ==
    IF OrderIdReturned(res) THEN EntryFilled(leg, price) ELSE leg

(* execute_exit after the order call, whatever the call returned *)
execute_exit_result(leg, price, reason, res) ==
    SetKey(SetKey(SetKey(leg, "status", "EXITED"), "exit_price", price),
           "exit_reason", reason)

AfterStopLoss_OneMore(leg) ==
    IF leg.entries_count <= 2 THEN SetKey(leg, "status", "WAITING_REENTRY")
    ELSE SetKey(leg, "status", "DONE")

(* check_leg_logic after execute_exit returned for a stop-loss *)
AfterStopLoss(leg) ==
    IF leg.entries_count < 2 THEN SetKey(leg, "status", "WAITING_REENTRY")
    ELSE SetKey(leg, "status", "DONE")

select_strikes_OnlyPicked(s, data_ok, picked) ==
    IF ~data_ok THEN [s EXCEPT !.instrument = Instrument]
    ELSE [s EXCEPT !.instrument = Instrument,
                   !.legs = [l \in picked |-> SelectedLeg(l)]]

(* select_strikes: data_ok is whether spot, expiry and ATM premiums were     *)
(* found, picked the configured legs for which a candidate strike exists.  *)
select_strikes(s, data_ok, picked) ==
    IF ~data_ok THEN [s EXCEPT !.instrument = Instrument]
    ELSE [s EXCEPT !.instrument = Instrument,
                   !.legs = [l \in (DOMAIN s.legs) \cup picked |->
                               IF l \in picked THEN SelectedLeg(l) ELSE s.legs[l]]]

Finalizable(s) ==
    {l \in DOMAIN s.legs : s.legs[l].status # "DONE" /\ s.legs[l].token # 0}

finalize_ranges_EveryLeg(s, found, rng) ==
    [s EXCEPT !.legs = [l \in DOMAIN s.legs |->
        [s.legs[l] EXCEPT !["range_high"] = rng.high,
                          !["range_low"] = rng.low,
                          !["status"] = "WAITING_ENTRY"]]]

(* what finalize_ranges returns: success_count > 0 *)
finalize_ranges_returns(found) == Cardinality(found) > 0

finalize_ranges(s, found, rng) ==
    [s EXCEPT !.legs = [l \in DOMAIN s.legs |->
        IF l \in found
        THEN [s.legs[l] EXCEPT !["range_high"] = rng.high,
                               !["range_low"] = rng.low,
                               !["status"] = "WAITING_ENTRY"]
        ELSE s.legs[l]]]

SquareOffTasks_AllLegs(s) ==
    [l \in Legs |->
        IF l \in DOMAIN s.legs /\ s.legs[l].status # "IDLE"
        THEN OrderTask("exit", "DAILY_SQUARE_OFF", 0) ELSE NoTask]

(* execute_strategy_exit, the loop over the legs before the gather *)
SquareOffMarks(s) ==
    [s EXCEPT !.legs = [l \in DOMAIN s.legs |->
        IF s.legs[l].status \in {"WAITING_ENTRY", "WAITING_REENTRY"}
        THEN SetKey(s.legs[l], "status", "DONE") ELSE s.legs[l]]]

SquareOffTasks(s) ==
    [l \in Legs |->
        IF l \in DOMAIN s.legs /\ s.legs[l].status = "ACTIVE"
        THEN OrderTask("exit", "DAILY_SQUARE_OFF", 0) ELSE NoTask]

ResetState_KeepLegs(s) == [s EXCEPT !.status = "IDLE"]

(* the reset of start(), lines 157-160 *)
ResetState(s) == [s EXCEPT !.status = "IDLE", !.legs = NoLegs]

WithPlaceholders_Always(s) == [s EXCEPT !.legs = [l \in Legs |-> Placeholder(l)]]

(* start(): the broker login is skipped when paper trading *)
LoginAtStart(p) == ~p

(* load_state and the placeholder legs of start() *)
load_state(s, f) == IF Len(f) = 0 THEN s ELSE json_load(f[1])

WithPlaceholders(s) ==
    IF DOMAIN s.legs = {} THEN [s EXCEPT !.legs = [l \in Legs |-> Placeholder(l)]]
    ELSE s

AllJoined_NoWait == TRUE

(* asyncio.gather returns when every coroutine it was given has returned *)
AllJoined == \A l \in Legs : task[l].st = "none"

----------------------------------------------------------------------------
Init ==
    /\ state = InitialState
    /\ file = <<>>
    /\ clock = 0
    /\ pc = "boot"
    /\ running \in BOOLEAN
    /\ paper = FALSE
    /\ gateway = "up"
    /\ today = NoCounts
    /\ opened = NoOrders
    /\ task = NoTasks
    /\ late = {}
    /\ gwEntries = Zero
    /\ gwExits = Zero
    /\ gwFills = Zero
    /\ settings = StoredSettings
    /\ reqs = NoRequests
    /\ calc = NoCall
    /\ restarts = 0
    /\ ev = NoEv
    /\ saved = InitialState
    /\ maxed = {}

(* start(), up to the loop: load the state file, create placeholder legs *)
start ==
    /\ pc = "boot"
    /\ state' = WithPlaceholders(load_state(state, file))
    /\ pc' = "loop"
    /\ ev' = Started(LoginAtStart(paper))
    /\ UNCHANGED <<file, clock, running, paper, opened, gateway, today, settings, reqs, calc, task, late, gwEntries, gwExits, gwFills, restarts, saved, maxed>>

(* the process dies (at any point) and a new one is constructed *)
crash ==
    /\ pc # "boot"
    /\ restarts < MaxRestarts
    /\ restarts' = restarts + 1
    /\ state' = InitialState
    /\ task' = NoTasks
    /\ pc' = "boot"
    /\ ev' = Ev("crash", "-")
    /\ UNCHANGED <<file, clock, running, paper, opened, gateway, today, settings, reqs, calc, late, gwEntries, gwExits, gwFills, saved, maxed>>

(* POST /control/start and /control/stop; the flag is read at the loop head *)
set_is_running ==
    /\ pc = "loop"
    /\ running' = ~running
    /\ ev' = NoEv
    /\ UNCHANGED <<state, file, clock, pc, paper, opened, gateway, today, settings, reqs, calc, task, late, gwEntries, gwExits, gwFills, restarts, saved, maxed>>

AfterFlag_Ignored(flag) == "gap"

(* `if not config["is_running"]: sleep(5); continue` *)
AfterFlag(flag) == IF flag THEN "gap" ELSE "sleep"

(* the head of the loop: read the settings, test the run flag *)
loop_head ==
    /\ pc = "loop"
    /\ pc' = AfterFlag(running)
    /\ ev' = NoEv
    /\ UNCHANGED <<state, file, clock, running, paper, opened, gateway, today, settings, reqs, calc, task, late, gwEntries, gwExits, gwFills, restarts, saved, maxed>>

(* asyncio.sleep at the end of a tick; the clock may pass to the next minute *)
Sleep(counted) ==
    /\ pc = "sleep"
    /\ \E t \in {clock, NextMinute(clock)} :
          /\ clock' = t
          /\ today' = IF counted /\ t < clock THEN NoCounts ELSE today
    /\ pc' = "loop"
    /\ ev' = NoEv
    /\ UNCHANGED <<state, file, running, paper, opened, gateway, settings, reqs, calc, task, late, gwEntries, gwExits, gwFills, restarts, saved, maxed>>

sleep == Sleep(FALSE)

(* the same, with the day's counts cleared at midnight *)
sleep_counted == Sleep(TRUE)

(* TASK 1: check_gap_condition reads each ACTIVE leg's price, then gathers *)
GapTasks(s, pr) ==
    [l \in Legs |->
        IF /\ l \in DOMAIN s.legs
           /\ s.legs[l].status = "ACTIVE"
           /\ pr[l] # 0
           /\ pr[l] <= s.legs[l].sl_price
        THEN OrderTask("exit", "GAP_SL_HIT", pr[l]) ELSE NoTask]

check_gap_condition ==
    /\ pc = "gap"
    /\ IF InGapWindow(clock)
       THEN \E pr \in [Legs -> PricesOrNone] :
               /\ \A l \in Legs :
                    (l \notin DOMAIN state.legs \/ state.legs[l].status # "ACTIVE")
                        => pr[l] = 0
               /\ task' = GapTasks(state, pr)
               /\ pc' = "gap_run"
               /\ ev' = Quote("gap_check", pr)
       ELSE /\ task' = task
            /\ pc' = "exit"
            /\ ev' = NoEv
    /\ UNCHANGED <<state, file, clock, running, paper, opened, gateway, today, settings, reqs, calc, late, gwEntries, gwExits, gwFills, restarts, saved, maxed>>

gap_join ==
    /\ pc = "gap_run"
    /\ AllJoined
    /\ pc' = "exit"
    /\ ev' = NoEv
    /\ UNCHANGED <<state, file, clock, running, paper, opened, gateway, today, settings, reqs, calc, task, late, gwEntries, gwExits, gwFills, restarts, saved, maxed>>

(* TASK 2: the daily exit, up to the gather of execute_strategy_exit *)
execute_strategy_exit ==
    /\ pc = "exit"
    /\ IF InExitWindow(clock) /\ state.status # "IDLE"
       THEN /\ state' = SquareOffMarks(state)
            /\ task' = SquareOffTasks(state)
            /\ pc' = "exit_run"
            /\ ev' = Ev("square_off", "-")
       ELSE /\ UNCHANGED <<state, task>>
            /\ pc' = "start"
            /\ ev' = NoEv
    /\ UNCHANGED <<file, clock, running, paper, opened, gateway, today, settings, reqs, calc, late, gwEntries, gwExits, gwFills, restarts, saved, maxed>>

(* TASK 2, after the gather: reset for the new trading day and save *)
daily_reset ==
    /\ pc = "exit_run"
    /\ AllJoined
    /\ state' = ResetState(state)
    /\ file' = save_state(state')
    /\ saved' = state'
    /\ pc' = "start"
    /\ ev' = Ev("reset", "-")
    /\ late' = {}
    /\ gwEntries' = Zero
    /\ gwExits' = Zero
    /\ gwFills' = Zero
    /\ restarts' = 0
    /\ maxed' = {}
    /\ UNCHANGED <<clock, running, paper, opened, gateway, today, settings, reqs, calc, task>>

SelectionDue_AnyPhase(s, t) == InStartWindow(t)

(* TASK 3: the start window *)
SelectionDue(s, t) == InStartWindow(t) /\ s.status = "IDLE"

SelectionOutcomes ==
    {[ok |-> FALSE, picked |-> {}]} \cup {[ok |-> TRUE, picked |-> P] : P \in SUBSET Legs}

(* counted: whether the day's selections and finalizations are counted *)
StartWindow(counted) ==
    /\ pc = "start"
    /\ IF SelectionDue(state, clock)
       THEN \E o \in SelectionOutcomes :
               LET s1 == select_strikes(state, o.ok, o.picked) IN
               IF o.ok
               THEN /\ state' = [s1 EXCEPT !.status = "MONITORING_RANGE"]
                    /\ file' = save_state(state')
                    /\ saved' = state'
                    /\ ev' = Selected(o.picked)
                    /\ today' = IF counted
                                THEN [today EXCEPT !.selected = Once(@)]
                                ELSE today
               ELSE /\ state' = s1
                    /\ UNCHANGED <<file, saved, today>>
                    /\ ev' = Ev("select_fail", "-")
       ELSE /\ UNCHANGED <<state, file, saved, today>>
            /\ ev' = NoEv
    /\ pc' = "range"
    /\ UNCHANGED <<clock, running, paper, opened, gateway, settings, reqs, calc, task, late, gwEntries, gwExits, gwFills, restarts, maxed>>

start_window == StartWindow(FALSE)

start_window_counted == StartWindow(TRUE)

FinalizationDue_AnyPhase(s, t) == t >= EndTime

(* TASK 4: the range-end gate *)
FinalizationDue(s, t) == s.status = "MONITORING_RANGE" /\ t >= EndTime

RangeEnd(counted) ==
    /\ pc = "range"
    /\ IF FinalizationDue(state, clock)
       THEN \E found \in SUBSET Finalizable(state) : \E rng \in RangeData :
               /\ state' = [finalize_ranges(state, found, rng) EXCEPT !.status = "ACTIVE"]
               /\ file' = save_state(state')
               /\ saved' = state'
               /\ ev' = Finalized(found, finalize_ranges_returns(found))
               /\ today' = IF counted
                           THEN [today EXCEPT !.finalized = Once(@)]
                           ELSE today
       ELSE /\ UNCHANGED <<state, file, saved, today>>
            /\ ev' = NoEv
    /\ pc' = "monitor"
    /\ UNCHANGED <<clock, running, paper, opened, gateway, settings, reqs, calc, task, late, gwEntries, gwExits, gwFills, restarts, maxed>>

range_end == RangeEnd(FALSE)

range_end_counted == RangeEnd(TRUE)

(* TASK 5: monitor_and_execute gathers one check_leg_logic per leg. Each   *)
(* evaluation reads its own leg's live price and its own leg's fields,     *)
(* which no other evaluation writes, so the reads are taken together.      *)
check_leg_logic(s, pr) ==
    [l \in Legs |->
        IF l \in DOMAIN s.legs THEN LegDecision(s.legs[l], pr[l]) ELSE NoTask]

monitor_and_execute ==
    /\ pc = "monitor"
    /\ IF state.status = "ACTIVE"
       THEN \E pr \in [Legs -> PricesOrNone] :
               /\ \A l \in Legs : l \notin DOMAIN state.legs => pr[l] = 0
               /\ task' = check_leg_logic(state, pr)
               /\ pc' = "mon_run"
               /\ ev' = Quote("monitor", pr)
       ELSE /\ task' = task
            /\ pc' = "sleep"
            /\ ev' = NoEv
    /\ UNCHANGED <<state, file, clock, running, paper, opened, gateway, today, settings, reqs, calc, late, gwEntries, gwExits, gwFills, restarts, saved, maxed>>

monitor_join ==
    /\ pc = "mon_run"
    /\ AllJoined
    /\ pc' = "sleep"
    /\ ev' = NoEv
    /\ UNCHANGED <<state, file, clock, running, paper, opened, gateway, today, settings, reqs, calc, task, late, gwEntries, gwExits, gwFills, restarts, saved, maxed>>

UnansweredCall_NoTimeout == {}

(* a call the gateway never answers ends when wait_for's 2 s timeout fires *)
UnansweredCall == {"timeout"}

CallOutcomes_AlwaysLive(p) == {"ok", "fail", "timeout"}

(* the order call of execute_entry / execute_exit: paper trading makes no   *)
(* call; a live call returns an order id, fails, or exceeds the 2 s timeout *)
CallOutcomes(p) == IF p THEN {"paper"} ELSE {"ok", "fail", "timeout"}

Accepted(count, l) == [count EXCEPT ![l] = count[l] + 1]

(* counted: whether the gateway's confirmations are recorded (gwEntries);   *)
(* tracked: whether a timed-out call is followed while in flight (late);   *)
(* sized: whether the accepted entry order is remembered (opened)          *)
PlaceOrder(l, counted, tracked, sized) ==
    /\ task[l].st = "call"
    /\ \E res \in (IF gateway = "down" /\ ~paper THEN UnansweredCall
                   ELSE CallOutcomes(paper)) :
          /\ task' = [task EXCEPT ![l].st = "ret", ![l].res = res]
          /\ IF counted /\ res = "ok" /\ task[l].kind = "entry"
             THEN gwEntries' = Accepted(gwEntries, l)
             ELSE gwEntries' = gwEntries
          /\ IF counted /\ res # "paper" /\ task[l].kind = "exit"
             THEN gwExits' = Accepted(gwExits, l)
             ELSE gwExits' = gwExits
          /\ IF counted /\ res = "ok" /\ task[l].kind = "exit"
             THEN gwFills' = Accepted(gwFills, l)
             ELSE gwFills' = gwFills
          /\ IF tracked /\ res = "timeout"
             THEN late = {} /\ late' = {<<l, task[l].kind>>}
             ELSE late' = late
          /\ IF sized /\ res = "ok" /\ task[l].kind = "entry"
             THEN opened' = [opened EXCEPT ![l] =
                                OrderParams("entry", state.legs[l], settings)]
             ELSE opened' = opened
    /\ ev' = NoEv
    /\ UNCHANGED <<state, file, clock, pc, running, paper, gateway, today, settings, reqs, calc, restarts, saved, maxed>>

place_order(l) == PlaceOrder(l, FALSE, FALSE, FALSE)

place_order_counted(l) == PlaceOrder(l, TRUE, FALSE, FALSE)

place_order_tracked(l) == PlaceOrder(l, FALSE, TRUE, FALSE)

place_order_sized(l) == PlaceOrder(l, TRUE, FALSE, TRUE)

(* execute_entry after the call *)
execute_entry(l) ==
    /\ task[l].st = "ret"
    /\ task[l].kind = "entry"
    /\ state' = [state EXCEPT !.legs[l] =
                    execute_entry_result(state.legs[l], task[l].price, task[l].res)]
    /\ file' = IF OrderIdReturned(task[l].res) THEN save_state(state') ELSE file
    /\ saved' = IF OrderIdReturned(task[l].res) THEN state' ELSE saved
    /\ task' = [task EXCEPT ![l] = NoTask]
    /\ ev' = Ev("entry", l)
    /\ UNCHANGED <<clock, pc, running, paper, opened, gateway, today, settings, reqs, calc, late, gwEntries, gwExits, gwFills, restarts, maxed>>

(* execute_exit after the call, and for SL_HIT the rest of check_leg_logic *)
execute_exit(l) ==
    /\ task[l].st = "ret"
    /\ task[l].kind = "exit"
    /\ LET exited == execute_exit_result(state.legs[l], task[l].price,
                                         task[l].tag, task[l].res)
       IN /\ saved' = [state EXCEPT !.legs[l] = exited]
          /\ file' = save_state(saved')
          /\ state' = [state EXCEPT !.legs[l] =
                          IF task[l].tag = "SL_HIT" THEN AfterStopLoss(exited)
                          ELSE exited]
    /\ maxed' = IF task[l].tag = "SL_HIT" /\ state.legs[l].entries_count = 2
                THEN maxed \cup {l} ELSE maxed
    /\ task' = [task EXCEPT ![l] = NoTask]
    /\ ev' = Ev(IF task[l].tag = "SL_HIT" THEN "sl_hit" ELSE "exit", l)
    /\ UNCHANGED <<clock, pc, running, paper, opened, gateway, today, settings, reqs, calc, late, gwEntries, gwExits, gwFills, restarts>>

(* the executor thread of a timed-out call finishes; wait_for has already   *)
(* cancelled the future, so nothing receives what it returns               *)
late_result(l, k) ==
    /\ <<l, k>> \in late
    /\ late' = late \ {<<l, k>>}
    /\ ev' = Ev(IF k = "entry" THEN "late_entry" ELSE "late_exit", l)
    /\ UNCHANGED <<state, file, clock, pc, running, paper, opened, gateway, today, settings, reqs, calc, task, gwEntries, gwExits, gwFills, restarts, saved, maxed>>

Next ==
    \/ start
    \/ crash
    \/ set_is_running
    \/ loop_head
    \/ sleep
    \/ check_gap_condition
    \/ gap_join
    \/ execute_strategy_exit
    \/ daily_reset
    \/ start_window
    \/ range_end
    \/ monitor_and_execute
    \/ monitor_join
    \/ \E l \in Legs : place_order(l)
    \/ \E l \in Legs : execute_entry(l)
    \/ \E l \in Legs : execute_exit(l)

Spec == Init /\ [][Next]_vars

(* The same engine, always switched on, with the gateway's confirmations   *)
(* of entry orders recorded.                                               *)
InitGw == Init /\ running

NextGw ==
    \/ start
    \/ crash
    \/ loop_head
    \/ sleep
    \/ check_gap_condition
    \/ gap_join
    \/ execute_strategy_exit
    \/ daily_reset
    \/ start_window
    \/ range_end
    \/ monitor_and_execute
    \/ monitor_join
    \/ \E l \in Legs : place_order_counted(l)
    \/ \E l \in Legs : execute_entry(l)
    \/ \E l \in Legs : execute_exit(l)

SpecGw == InitGw /\ [][NextGw]_vars

(* The same engine, always switched on and never crashing, with the order  *)
(* calls that timed out followed until their executor thread finishes.     *)
NextLate ==
    \/ start
    \/ loop_head
    \/ sleep
    \/ check_gap_condition
    \/ gap_join
    \/ execute_strategy_exit
    \/ daily_reset
    \/ start_window
    \/ range_end
    \/ monitor_and_execute
    \/ monitor_join
    \/ \E l \in Legs : place_order_tracked(l)
    \/ \E l \in Legs : execute_entry(l)
    \/ \E l \in Legs : execute_exit(l)
    \/ \E l \in Legs, k \in {"entry", "exit"} : late_result(l, k)

SpecLate == InitGw /\ [][NextLate]_vars

(* Errors. An exception raised by a task of the tick (the settings read,   *)
(* a database query, the parse of a configured time) at its first await,   *)
(* before the task has changed anything, reaches the handler of the loop's *)
(* try, which logs it and sleeps 5 s.                                      *)
Caught_Unhandled == "stopped"

Caught == "cooldown"

task_error ==
    /\ pc \in {"loop", "gap", "exit", "start", "range", "monitor"}
    /\ pc' = Caught
    /\ ev' = Ev("error", "-")
    /\ UNCHANGED <<state, file, clock, running, paper, opened, gateway, today, settings, reqs, calc, task, late, gwEntries, gwExits, gwFills, restarts, saved, maxed>>

(* finalize_ranges raises at the range query of one leg (a database error) *)
(* after the legs before it in the loop were written; the loop's handler   *)
(* catches it before the phase is set and before anything is saved         *)
range_error ==
    /\ pc = "range"
    /\ FinalizationDue(state, clock)
    /\ \E k \in DOMAIN state.legs :
       \E found \in SUBSET (Finalizable(state) \ {k}) : \E rng \in RangeData :
          state' = finalize_ranges(state, found, rng)
    /\ pc' = Caught
    /\ ev' = Ev("error", "-")
    /\ UNCHANGED <<file, clock, running, paper, opened, gateway, today, settings, reqs, calc, task, late, gwEntries, gwExits, gwFills, restarts, saved, maxed>>

(* execute_exit raises (its settings read) inside the gather of the gap     *)
(* check or of the daily exit: gather re-raises at once into the loop; the *)
(* other coroutines of the gather are not cancelled and run on.            *)
fanout_error(l) ==
    /\ pc \in {"gap_run", "exit_run"}
    /\ task[l].st = "call"
    /\ task' = [task EXCEPT ![l] = NoTask]
    /\ pc' = Caught
    /\ ev' = Ev("error", l)
    /\ UNCHANGED <<state, file, clock, running, paper, opened, gateway, today, settings, reqs, calc, late, gwEntries, gwExits, gwFills, restarts, saved, maxed>>

(* execute_entry / execute_exit raises inside check_leg_logic, whose own   *)
(* handler logs it: that leg's evaluation ends, the gather goes on         *)
leg_error(l) ==
    /\ pc = "mon_run"
    /\ task[l].st = "call"
    /\ task' = [task EXCEPT ![l] = NoTask]
    /\ ev' = Ev("leg_error", l)
    /\ UNCHANGED <<state, file, clock, pc, running, paper, opened, gateway, today, settings, reqs, calc, late, gwEntries, gwExits, gwFills, restarts, saved, maxed>>

(* asyncio.sleep(5) of the handler. Coroutines left running by a gather    *)
(* that raised end within the 2 s order timeout, before the sleep is over. *)
cooldown ==
    /\ pc = "cooldown"
    /\ AllJoined
    /\ \E t \in {clock, NextMinute(clock)} : clock' = t
    /\ pc' = "loop"
    /\ ev' = Ev("cooldown", "-")
    /\ UNCHANGED <<state, file, running, paper, opened, gateway, today, settings, reqs, calc, task, late, gwEntries, gwExits, gwFills, restarts, saved, maxed>>

(* from some moment on the order gateway answers no call *)
gateway_outage ==
    /\ gateway = "up"
    /\ today = NoCounts
    /\ opened = NoOrders
    /\ gateway' = "down"
    /\ ev' = NoEv
    /\ UNCHANGED <<state, file, clock, pc, running, paper, opened, today, settings, reqs, calc, task, late, gwEntries, gwExits, gwFills, restarts, saved, maxed>>

(* what the event loop does by itself: every ready coroutine is resumed and *)
(* every timer (sleep, order timeout) fires                                *)
Scheduled ==
    \/ start
    \/ loop_head
    \/ sleep
    \/ cooldown
    \/ check_gap_condition
    \/ gap_join
    \/ execute_strategy_exit
    \/ daily_reset
    \/ start_window
    \/ range_end
    \/ monitor_and_execute
    \/ monitor_join
    \/ \E l \in Legs : place_order(l)
    \/ \E l \in Legs : execute_entry(l)
    \/ \E l \in Legs : execute_exit(l)

NextErr ==
    \/ Scheduled
    \/ task_error
    \/ range_error
    \/ \E l \in Legs : fanout_error(l)
    \/ \E l \in Legs : leg_error(l)
    \/ gateway_outage

(* The engine, always switched on and never crashing, with errors raised   *)
(* in its tasks and a gateway that may stop answering.                     *)
SpecErr == InitGw /\ [][NextErr]_vars /\ WF_vars(Scheduled)

(* The engine, never crashing, under the stored settings and under         *)
(* settings whose start window overlaps the daily-exit window, with the    *)
(* day's selections and finalizations counted.                             *)
InitDay ==
    /\ state = InitialState
    /\ file = <<>>
    /\ clock = 0
    /\ pc = "boot"
    /\ running \in BOOLEAN
    /\ paper = FALSE
    /\ gateway = "up"
    /\ today = NoCounts
    /\ opened = NoOrders
    /\ task = NoTasks
    /\ late = {}
    /\ gwEntries = Zero
    /\ gwExits = Zero
    /\ gwFills = Zero
    /\ settings \in {"v0", "v1"}
    /\ reqs = NoRequests
    /\ calc = NoCall
    /\ restarts = 0
    /\ ev = NoEv
    /\ saved = InitialState
    /\ maxed = {}

NextDay ==
    \/ start
    \/ set_is_running
    \/ loop_head
    \/ sleep_counted
    \/ check_gap_condition
    \/ gap_join
    \/ execute_strategy_exit
    \/ daily_reset
    \/ start_window_counted
    \/ range_end_counted
    \/ monitor_and_execute
    \/ monitor_join
    \/ \E l \in Legs : place_order(l)
    \/ \E l \in Legs : execute_entry(l)
    \/ \E l \in Legs : execute_exit(l)

SpecDay == InitDay /\ [][NextDay]_vars

(* POST /config while the strategy is stopped: the settings are replaced   *)
(* (the engine reads them again at each use)                               *)
update_config_stopped ==
    /\ pc = "loop"
    /\ ~running
    /\ \E v \in {"v0", "v2"} \ {settings} : settings' = v
    /\ ev' = Ev("updated", "-")
    /\ UNCHANGED <<state, file, clock, pc, running, paper, opened, gateway, today, reqs, calc, task, late, gwEntries, gwExits, gwFills, restarts, saved, maxed>>

(* The engine, never crashing, switched on and off, its settings changed   *)
(* while it is off, with the gateway's confirmations recorded and the      *)
(* accepted entry orders remembered.                                       *)
NextQty ==
    \/ start
    \/ set_is_running
    \/ update_config_stopped
    \/ loop_head
    \/ sleep
    \/ check_gap_condition
    \/ gap_join
    \/ execute_strategy_exit
    \/ daily_reset
    \/ start_window
    \/ range_end
    \/ monitor_and_execute
    \/ monitor_join
    \/ \E l \in Legs : place_order_sized(l)
    \/ \E l \in Legs : execute_entry(l)
    \/ \E l \in Legs : execute_exit(l)

SpecQty == Init /\ [][NextQty]_vars

(* The same engine, always switched on and never crashing, with the        *)
(* paper_trading setting true.                                             *)
InitPaper ==
    /\ state = InitialState
    /\ file = <<>>
    /\ clock = 0
    /\ pc = "boot"
    /\ running = TRUE
    /\ paper = TRUE
    /\ gateway = "up"
    /\ today = NoCounts
    /\ opened = NoOrders
    /\ task = NoTasks
    /\ late = {}
    /\ gwEntries = Zero
    /\ gwExits = Zero
    /\ gwFills = Zero
    /\ settings = StoredSettings
    /\ reqs = NoRequests
    /\ calc = NoCall
    /\ restarts = 0
    /\ ev = NoEv
    /\ saved = InitialState
    /\ maxed = {}

NextPaper ==
    \/ start
    \/ loop_head
    \/ sleep
    \/ check_gap_condition
    \/ gap_join
    \/ execute_strategy_exit
    \/ daily_reset
    \/ start_window
    \/ range_end
    \/ monitor_and_execute
    \/ monitor_join
    \/ \E l \in Legs : place_order_counted(l)
    \/ \E l \in Legs : execute_entry(l)
    \/ \E l \in Legs : execute_exit(l)

SpecPaper == InitPaper /\ [][NextPaper]_vars

----------------------------------------------------------------------------
(* The API server (src/main.py) and ConfigManager: POST /config and POST    *)
(* /control/start|stop, handled concurrently. Every get_config and every   *)
(* update_config holds the lock for one read or one write of the file, so  *)
(* each is one step; a handler is suspended between them.                  *)

engineVars == <<state, file, clock, pc, paper, opened, gateway, today, task, late, gwEntries, gwExits,
                gwFills, calc, restarts, saved, maxed>>

(* a client posts a config: the one it fetched, with the settings edited *)
post_config(c) ==
    /\ reqs[c].kind = "none"
    /\ \E v \in SettingsValues :
          reqs' = [reqs EXCEPT ![c] =
                      [kind |-> "update", pc |-> "check", arg |-> Config(running, v)]]
    /\ ev' = Ev("post_config", c)
    /\ UNCHANGED <<running, settings>>
    /\ UNCHANGED engineVars

(* main.update_config: get_config and the test of is_running *)
update_config_check(c) ==
    /\ reqs[c].kind = "update"
    /\ reqs[c].pc = "check"
    /\ IF running
       THEN /\ reqs' = [reqs EXCEPT ![c] = NoRequest]
            /\ ev' = Ev("rejected", c)
       ELSE /\ reqs' = [reqs EXCEPT ![c].pc = "write"]
            /\ ev' = Ev("accepted", c)
    /\ UNCHANGED <<running, settings>>
    /\ UNCHANGED engineVars

(* ConfigManager.update_config called by main.update_config *)
update_config_write(c) ==
    /\ reqs[c].kind = "update"
    /\ reqs[c].pc = "write"
    /\ running' = reqs[c].arg.is_running
    /\ settings' = reqs[c].arg.settings
    /\ reqs' = [reqs EXCEPT ![c] = NoRequest]
    /\ ev' = Ev("updated", c)
    /\ UNCHANGED engineVars

(* POST /control/start (flag TRUE) or /control/stop (flag FALSE) arrives *)
control(c, flag) ==
    /\ reqs[c].kind = "none"
    /\ reqs' = [reqs EXCEPT ![c] =
                    [kind |-> "control", pc |-> "read", arg |-> Config(flag, settings)]]
    /\ ev' = Ev("control", c)
    /\ UNCHANGED <<running, settings>>
    /\ UNCHANGED engineVars

(* what get_config returns when the file cannot be read or parsed: {} *)
Unreadable == "empty"

(* set_is_running: config = get_config(); config["is_running"] = flag *)
set_is_running_read(c) ==
    /\ reqs[c].kind = "control"
    /\ reqs[c].pc = "read"
    /\ \E got \in {settings, Unreadable} :
          reqs' = [reqs EXCEPT ![c].pc = "write",
                               ![c].arg = Config(reqs[c].arg.is_running, got)]
    /\ ev' = Ev("read", c)
    /\ UNCHANGED <<running, settings>>
    /\ UNCHANGED engineVars

(* set_is_running: update_config(config) *)
set_is_running_write(c) ==
    /\ reqs[c].kind = "control"
    /\ reqs[c].pc = "write"
    /\ running' = reqs[c].arg.is_running
    /\ settings' = reqs[c].arg.settings
    /\ reqs' = [reqs EXCEPT ![c] = NoRequest]
    /\ ev' = Ev(IF reqs[c].arg.is_running THEN "started" ELSE "stopped", c)
    /\ UNCHANGED engineVars

NextApi ==
    \/ \E c \in Clients : post_config(c)
    \/ \E c \in Clients : update_config_check(c)
    \/ \E c \in Clients : update_config_write(c)
    \/ \E c \in Clients, flag \in BOOLEAN : control(c, flag)
    \/ \E c \in Clients : set_is_running_read(c)
    \/ \E c \in Clients : set_is_running_write(c)

SpecApi == Init /\ [][NextApi]_vars

----------------------------------------------------------------------------
(* The arithmetic of select_strikes, as functions of their inputs *)

Abs(x) == IF x < 0 THEN 0 - x ELSE x

(* round(): to the nearest integer, a tie to the even one *)
RoundHalfEven_Floor(n, d) == n \div d

RoundHalfEven(n, d) ==
    LET q == n \div d
        r == n % d
    IN IF 2 * r < d THEN q
       ELSE IF 2 * r > d THEN q + 1
       ELSE IF q % 2 = 0 THEN q ELSE q + 1

(* atm_strike = round(spot_price / step) * step *)
atm_strike(spot, step) == RoundHalfEven(spot, step) * step

(* target_premium = straddle_premium * (target_pct / 100.0) *)
TargetPremium(straddle, pct) == (straddle * pct) \div 100

Better_OrEqual(k, kbest) == k <= kbest

(* min(): a later element replaces the best one only if its key is smaller *)
Better(k, kbest) == k < kbest

RECURSIVE MinFrom(_, _, _)
MinFrom(keys, i, best) ==
    IF i > Len(keys) THEN best
    ELSE MinFrom(keys, i + 1, IF Better(keys[i], keys[best]) THEN i ELSE best)

(* the index of min(candidates, key = |last_price - target|), 0 for None *)
get_closest_match(target, cands) ==
    IF Len(cands) = 0 THEN 0
    ELSE MinFrom([i \in 1..Len(cands) |-> Abs(cands[i] - target)], 2, 1)

find_leg(straddle, pct, cands) ==
    get_closest_match(TargetPremium(straddle, pct), cands)

CandPrices == {40, 48, 60, 70}
Candidates == UNION {[1..n -> CandPrices] : n \in 0..MaxCands}
Straddles == {500, 600}
Pcts == {10, 20}
Spots == (1..MaxSpot) \cup {59137}
Steps == {1, 2, 5, 50, 100}

FindLegCalls ==
    {[fn |-> "find_leg", straddle |-> st, pct |-> p, cands |-> cs,
      done |-> FALSE, out |-> 0] :
        st \in Straddles, p \in Pcts, cs \in Candidates}

ClosestCalls ==
    {[fn |-> "get_closest_match", straddle |-> t, pct |-> 100, cands |-> cs,
      done |-> FALSE, out |-> 0] :
        t \in {TargetPremium(st, p) : st \in Straddles, p \in Pcts},
        cs \in Candidates}

AtmCalls ==
    {[fn |-> "atm_strike", spot |-> sp, step |-> k, done |-> FALSE, out |-> 0] :
        sp \in Spots, k \in Steps}

(* datetime.time(h, m): a time of day, in minutes, or ValueError when the    *)
(* hour is not in 0..23 or the minute not in 0..59                         *)
time(h, m) ==
    IF h \in 0..23 /\ m \in 0..59 THEN [ok |-> TRUE, minute |-> h * 60 + m]
    ELSE [ok |-> FALSE, minute |-> 0]

(* `current_time >= time(h, m) and current_time < time(h, m + w)` of TASK 1 *)
(* and TASK 2: whether the task runs ("run"), is skipped ("skip"), or the  *)
(* expression raises ("error"); `and` evaluates its right operand only     *)
(* when the left one holds.                                                *)
window_task(now, h, m, w) ==
    IF ~time(h, m).ok THEN "error"
    ELSE IF ~(now >= time(h, m).minute) THEN "skip"
    ELSE IF ~time(h, m + w).ok THEN "error"
    ELSE IF now < time(h, m + w).minute THEN "run"
    ELSE "skip"

(* configured HH:MM, window widths, and clock readings around the window *)
WindowHours == {9, 10}
WindowMinutes == {0, 16, 58, 59}
WindowWidths == 1..MaxWindow
WindowOffsets == (0 - 1)..(MaxWindow + 1)

WindowCalls ==
    {[fn |-> "window_task", h |-> h, m |-> m, w |-> w, now |-> h * 60 + m + d,
      done |-> FALSE, out |-> "none"] :
        h \in WindowHours, m \in WindowMinutes, w \in WindowWidths, d \in WindowOffsets}

(* select_strikes, the symbols it queries. It looks the configured         *)
(* instrument up in instrument_map (line 253) and passes the result to     *)
(* get_expiry, which looks its argument up in instrument_map again (line   *)
(* 216) and raises KeyError when it is not a key; tokens and candidate     *)
(* strikes are queried with the symbol of line 253.                        *)
Symbols == {"NIFTY BANK", "BANKNIFTY", "NIFTY"}

get_expiry(mapping, instrument) ==
    IF instrument \in DOMAIN mapping
    THEN [raised |-> FALSE, symbol |-> mapping[instrument]]
    ELSE [raised |-> TRUE, symbol |-> "-"]

select_strikes_symbols(mapping, instrument) ==
    LET db_instrument == mapping[instrument]
        expiry == get_expiry(mapping, db_instrument)
    IN [raised |-> expiry.raised,
        expiries |-> expiry.symbol,
        strikes |-> IF expiry.raised THEN "-" ELSE db_instrument]

(* the instrument maps that have instrument i as a key *)
InstrumentMaps(i) ==
    UNION {[D -> Symbols] : D \in {E \in SUBSET Symbols : i \in E}}

SymbolCalls ==
    UNION {{[fn |-> "select_strikes_symbols", instrument |-> i, mapping |-> m,
             done |-> FALSE, out |-> "none"] : m \in InstrumentMaps(i)} :
           i \in Symbols}

InitCalc ==
    /\ state = InitialState
    /\ file = <<>>
    /\ clock = 0
    /\ pc = "boot"
    /\ running = FALSE
    /\ paper = FALSE
    /\ gateway = "up"
    /\ today = NoCounts
    /\ opened = NoOrders
    /\ task = NoTasks
    /\ late = {}
    /\ gwEntries = Zero
    /\ gwExits = Zero
    /\ gwFills = Zero
    /\ settings = StoredSettings
    /\ reqs = NoRequests
    /\ calc \in FindLegCalls \cup ClosestCalls \cup AtmCalls \cup WindowCalls
                \cup SymbolCalls
    /\ restarts = 0
    /\ ev = NoEv
    /\ saved = InitialState
    /\ maxed = {}

Return(op, v) ==
    /\ calc' = [calc EXCEPT !.done = TRUE, !.out = v]
    /\ ev' = Ev(op, "-")
    /\ UNCHANGED <<state, file, clock, pc, running, paper, opened, gateway, today, task, late, gwEntries,
                   gwExits, gwFills, settings, reqs, restarts, saved, maxed>>

call_find_leg ==
    /\ calc.fn = "find_leg"
    /\ ~calc.done
    /\ Return("find_leg", find_leg(calc.straddle, calc.pct, calc.cands))

call_get_closest_match ==
    /\ calc.fn = "get_closest_match"
    /\ ~calc.done
    /\ Return("get_closest_match", get_closest_match(calc.straddle, calc.cands))

call_atm_strike ==
    /\ calc.fn = "atm_strike"
    /\ ~calc.done
    /\ Return("atm_strike", atm_strike(calc.spot, calc.step))

call_window_task ==
    /\ calc.fn = "window_task"
    /\ ~calc.done
    /\ Return("window_task", window_task(calc.now, calc.h, calc.m, calc.w))

call_select_strikes_symbols ==
    /\ calc.fn = "select_strikes_symbols"
    /\ ~calc.done
    /\ Return("select_strikes_symbols",
              select_strikes_symbols(calc.mapping, calc.instrument))

NextCalc ==
    \/ call_select_strikes_symbols
    \/ call_window_task
    \/ call_find_leg
    \/ call_get_closest_match
    \/ call_atm_strike

SpecCalc == InitCalc /\ [][NextCalc]_vars

----------------------------------------------------------------------------
(* Properties *)

HasCount(leg) == "entries_count" \in DOMAIN leg

(* the state a restart would load from the file *)
FileState == IF Len(file) = 1 THEN json_load(file[1]) ELSE InitialState

EntryReturns(l) ==
    task[l].st = "ret" /\ task[l].kind = "entry" /\ task'[l].st = "none" /\ pc' # "boot"

ExitReturns(l) ==
    task[l].st = "ret" /\ task[l].kind = "exit" /\ task'[l].st = "none" /\ pc' # "boot"

(* C1: every leg, in memory and in the state file, has entries_count <= 2; *)
(* a stop-loss that fires at entries_count = 2 leaves the leg DONE; and a   *)
(* leg whose stop-loss fired at entries_count = 2 is not WAITING_REENTRY or *)
(* ACTIVE again before the daily reset, also across a crash and restart.   *)
C1_ReentryBound ==
    /\ \A l \in DOMAIN state.legs :
          HasCount(state.legs[l]) => state.legs[l].entries_count <= 2
    /\ \A l \in DOMAIN FileState.legs :
          HasCount(FileState.legs[l]) => FileState.legs[l].entries_count <= 2
    /\ (ev.op = "sl_hit" /\ state.legs[ev.leg].entries_count = 2)
          => (state.legs[ev.leg].status = "DONE" /\ ev.leg \in maxed)
    /\ \A l \in maxed :
          l \in DOMAIN state.legs
              => state.legs[l].status \notin {"WAITING_REENTRY", "ACTIVE"}

C1_Witness ==
    \E l \in maxed :
        /\ l \in DOMAIN state.legs
        /\ state.legs[l].status = "DONE"
        /\ state.legs[l].entries_count = 2
        /\ pc = "sleep"

(* C2: when the order call of an entry fails or times out, the state dict   *)
(* and the state file are unchanged and the same live price would trigger  *)
(* the same entry again; when the executor thread of a timed-out call      *)
(* finishes later, the state dict and the state file are unchanged.        *)
C2_FailedEntryLeavesLeg ==
    [][ /\ \A l \in Legs :
            (EntryReturns(l) /\ task[l].res \in {"fail", "timeout"})
                => /\ state' = state
                   /\ file' = file
                   /\ LegDecision(state'.legs[l], task[l].price)
                        = OrderTask("entry", task[l].tag, task[l].price)
        /\ ev'.op \in {"late_entry", "late_exit"} => (state' = state /\ file' = file)
      ]_vars

C2_Witness ==
    /\ ev.op = "late_entry"
    /\ state.legs[ev.leg].status = "WAITING_ENTRY"
    /\ state.legs[ev.leg].entries_count = 0
    /\ Len(file) = 1
    /\ FileState.legs[ev.leg].status = "WAITING_ENTRY"

(* C3 (as claimed): when the order call of an exit fails or times out, the  *)
(* leg is left as it was (ACTIVE, no exit price or reason).                *)
C3_FailedExitLeavesLeg ==
    [][ \A l \in Legs :
            (ExitReturns(l) /\ task[l].res \in {"fail", "timeout"})
                => state'.legs[l] = state.legs[l]
      ]_vars

Durable(leg) ==
    [status |-> leg.status, entry_price |-> leg.entry_price,
     sl_price |-> leg.sl_price, entries_count |-> leg.entries_count]

(* C4 (as claimed): at the end of every tick the state file holds the phase *)
(* of the state dict and, for every selected leg, its status, entry price, *)
(* stop-loss price and entries_count.                                      *)
C4_SnapshotCurrentAtTickEnd ==
    (pc = "sleep" /\ Len(file) = 1)
        => /\ FileState.status = state.status
           /\ \A l \in DOMAIN state.legs :
                 HasCount(state.legs[l])
                     => /\ l \in DOMAIN FileState.legs
                        /\ HasCount(FileState.legs[l])
                        /\ Durable(FileState.legs[l]) = Durable(state.legs[l])

(* C5 (as claimed): after a restart the number of entry orders the gateway *)
(* has accepted for a leg equals the leg's recorded entries_count.         *)
C5_RecoveredCountsAgree ==
    (ev.op = "start" /\ restarts > 0)
        => \A l \in DOMAIN state.legs :
              HasCount(state.legs[l]) => gwEntries[l] = state.legs[l].entries_count

(* C6: what json.load reads from the state file is the state dict that was  *)
(* saved; after start() the phase is the saved phase, legs that were saved  *)
(* are the legs of the state dict unchanged, and placeholder legs exist     *)
(* only when no leg was saved.                                             *)
C6_SaveLoadRoundTrip ==
    /\ Len(file) = 1 => json_load(file[1]) = saved
    /\ ev.op = "start"
          => /\ state.status = saved.status
             /\ state.instrument = saved.instrument
             /\ IF DOMAIN saved.legs # {}
                THEN state.legs = saved.legs
                ELSE /\ DOMAIN state.legs = Legs
                     /\ \A l \in Legs : state.legs[l] = Placeholder(l)

C6_Witness ==
    /\ ev.op = "start"
    /\ restarts > 0
    /\ Len(file) = 1
    /\ state.status = "ACTIVE"
    /\ \E l \in DOMAIN state.legs :
          /\ state.legs[l].status = "ACTIVE"
          /\ state.legs[l].entry_price = 150
          /\ state.legs[l].sl_price = 120
    /\ \E l \in DOMAIN state.legs : state.legs[l].status = "IDLE"

(* C7 (as claimed): outside the daily reset, a leg that is EXITED or DONE   *)
(* in the state dict or in the state file keeps that status in the next    *)
(* state.                                                                  *)
C7_ExitedDoneAreFinal ==
    [][ ev'.op # "reset"
          => /\ pc' # "boot"
                  => \A l \in DOMAIN state.legs :
                        state.legs[l].status \in {"EXITED", "DONE"}
                            => /\ l \in DOMAIN state'.legs
                               /\ state'.legs[l].status = state.legs[l].status
             /\ \A l \in DOMAIN FileState.legs :
                   FileState.legs[l].status \in {"EXITED", "DONE"}
                       => /\ l \in DOMAIN FileState'.legs
                          /\ FileState'.legs[l].status = FileState.legs[l].status
      ]_vars

(* C8: a step of the control loop changes the phase only from IDLE to       *)
(* MONITORING_RANGE, from MONITORING_RANGE to ACTIVE, or, in the daily      *)
(* reset, from a phase other than IDLE to IDLE; the daily reset leaves the  *)
(* leg map empty.                                                          *)
C8_PhaseForwardOnly ==
    [][ (pc # "boot" /\ pc' # "boot")
          => /\ state'.status # state.status
                  => \/ state.status = "IDLE" /\ state'.status = "MONITORING_RANGE"
                     \/ state.status = "MONITORING_RANGE" /\ state'.status = "ACTIVE"
                     \/ state.status # "IDLE" /\ state'.status = "IDLE"
                            /\ ev'.op = "reset"
             /\ ev'.op = "reset" => (state'.status = "IDLE" /\ state'.legs = NoLegs)
      ]_vars

C8_Witness ==
    /\ ev.op = "reset"
    /\ state.status = "IDLE"
    /\ state.legs = NoLegs
    /\ saved.status = "IDLE"
    /\ clock = ExitTime

(* C9: strike selection is invoked exactly on a running tick whose clock is *)
(* in [StartTime, StartTime + BufferMins) while the phase is IDLE, also     *)
(* after a restart; on success the phase is MONITORING_RANGE and the state  *)
(* file holds it; on failure the phase stays IDLE, the file is untouched,   *)
(* and a later tick in the window invokes selection again.                 *)
C9_SelectionOnlyWhenIdle ==
    [][ /\ (pc = "start" /\ pc' = "range")
            => (ev'.op \in {"select_ok", "select_fail"}
                  <=> (running /\ clock >= StartTime
                          /\ clock < StartTime + BufferMins
                          /\ state.status = "IDLE"))
        /\ ev'.op \in {"select_ok", "select_fail"} => pc = "start"
        /\ ev'.op = "select_ok"
            => /\ state'.status = "MONITORING_RANGE"
               /\ Len(file') = 1
               /\ json_load(file'[1]) = state'
        /\ ev'.op = "select_fail"
            => /\ state'.status = "IDLE"
               /\ file' = file
      ]_vars

C9_Witness ==
    /\ restarts > 0
    /\ pc = "range"
    /\ InStartWindow(clock)
    /\ state.status = "MONITORING_RANGE"
    /\ ev.op = "none"

(* C10: the daily exit runs exactly on a tick whose clock is in             *)
(* [ExitTime, ExitTime + ExitWindow) with a phase other than IDLE; it calls *)
(* execute_exit with DAILY_SQUARE_OFF for each ACTIVE leg and for no other  *)
(* leg; when it is over the phase is IDLE, the leg map is empty and the     *)
(* state file holds that state.                                            *)
C10_DailySquareOff ==
    [][ /\ (pc = "exit" /\ pc' # "boot")
            => (ev'.op = "square_off"
                  <=> (clock >= ExitTime /\ clock < ExitTime + ExitWindow
                          /\ state.status # "IDLE"))
        /\ ev'.op = "square_off"
            => \A l \in Legs :
                  IF l \in DOMAIN state.legs /\ state.legs[l].status = "ACTIVE"
                  THEN task'[l] = OrderTask("exit", "DAILY_SQUARE_OFF", 0)
                  ELSE task'[l] = NoTask
        /\ (pc = "exit_run" /\ pc' = "exit_run")
            => \A l \in Legs : task[l].st = "none" => task'[l].st = "none"
        /\ (pc = "exit_run" /\ pc' \notin {"exit_run", "boot"})
            => /\ ev'.op = "reset"
               /\ state'.status = "IDLE"
               /\ state'.legs = NoLegs
               /\ Len(file') = 1
               /\ json_load(file'[1]) = state'
      ]_vars

C10_Witness ==
    /\ pc = "exit_run"
    /\ \E l \in Legs : task[l].tag = "DAILY_SQUARE_OFF" /\ task[l].st = "ret"
    /\ \E l \in DOMAIN state.legs : state.legs[l].status = "DONE" /\ task[l] = NoTask

(* C17 (as claimed): the stored settings change only while the stored run   *)
(* flag is false; a POST /config tested while the flag is true is rejected *)
(* and writes nothing; an accepted update leaves the stored run flag as it *)
(* is.                                                                     *)
C17_SettingsFrozenWhileRunning ==
    [][ /\ settings' # settings => ~running
        /\ \A c \in Clients :
              (reqs[c].kind = "update" /\ reqs[c].pc = "check" /\ running
                  /\ reqs'[c] # reqs[c])
                  => (ev'.op = "rejected" /\ settings' = settings /\ running' = running)
        /\ ev'.op = "updated" => running' = running
      ]_vars

(* C11 (as claimed): an exit order is called only for a leg that is ACTIVE, *)
(* and for every leg the exit order calls made today do not exceed the     *)
(* entry orders the gateway accepted today.                                *)
C11_ExitOnlyActiveLegs ==
    /\ \A l \in Legs :
          (task[l].kind = "exit" /\ task[l].st = "call")
              => (l \in DOMAIN state.legs /\ state.legs[l].status = "ACTIVE")
    /\ \A l \in Legs : gwExits[l] <= gwEntries[l]

(* C12 (as claimed): when the daily exit resets the state, every entry      *)
(* order the gateway accepted today is matched by an exit order it         *)
(* accepted.                                                               *)
C12_FlatAfterSquareOff ==
    [][ ev'.op = "reset" => \A l \in Legs : gwFills[l] = gwEntries[l] ]_vars

IsActive(l) == l \in DOMAIN state.legs /\ state.legs[l].status = "ACTIVE"

(* the stop-loss of a leg is breached by a live price p (0: no price) *)
Breached(l, p) ==
    /\ p # 0
    /\ IF state.legs[l].action = "BUY" THEN p <= state.legs[l].sl_price
       ELSE p >= state.legs[l].sl_price

(* C13 (as claimed): the gap check calls execute_exit with GAP_SL_HIT for   *)
(* exactly the ACTIVE legs whose live price is <= the stop-loss price (BUY) *)
(* or >= the stop-loss price (SELL); the other legs are left unchanged.    *)
C13_GapExitIffBreached ==
    [][ /\ ev'.op = "gap_check"
            => \A l \in Legs :
                  IF IsActive(l) /\ Breached(l, ev'.pr[l])
                  THEN task'[l] = OrderTask("exit", "GAP_SL_HIT", ev'.pr[l])
                  ELSE task'[l] = NoTask
        /\ (pc = "gap_run" /\ pc' # "boot")
            => \A l \in DOMAIN state.legs :
                  task[l].st = "none" => state'.legs[l] = state.legs[l]
      ]_vars

(* C14: leg monitoring calls execute_exit with SL_HIT for an ACTIVE leg iff *)
(* its live price is <= the stop-loss price (BUY) or >= it (SELL); when    *)
(* that exit returns the leg is WAITING_REENTRY if entries_count < 2 and    *)
(* DONE otherwise.                                                         *)
C14_StopLossInMonitoring ==
    [][ /\ ev'.op = "monitor"
            => \A l \in Legs :
                  IsActive(l)
                      => IF Breached(l, ev'.pr[l])
                         THEN task'[l] = OrderTask("exit", "SL_HIT", ev'.pr[l])
                         ELSE task'[l] = NoTask
        /\ \A l \in Legs :
              (ExitReturns(l) /\ task[l].tag = "SL_HIT")
                  => state'.legs[l].status =
                        IF state.legs[l].entries_count < 2 THEN "WAITING_REENTRY"
                        ELSE "DONE"
      ]_vars

C14_Witness ==
    /\ ev = Ev("sl_hit", "pe")
    /\ state.legs["pe"].action = "SELL"
    /\ state.legs["pe"].status = "WAITING_REENTRY"
    /\ state.legs["pe"].exit_price >= state.legs["pe"].sl_price
    /\ state.legs["pe"].entries_count = 1

(* C15: an ACTIVE leg's sl_price is entry_price * (1 - sl_pct/100) for BUY   *)
(* and entry_price * (1 + sl_pct/100) for SELL; a step changes a leg's      *)
(* entry_price or sl_price only when an entry order of that leg returned an *)
(* order id.                                                               *)
C15_StopLossFromEntry ==
    [][ \A l \in DOMAIN state'.legs :
          /\ state'.legs[l].status = "ACTIVE"
                => state'.legs[l].sl_price * 100 =
                      state'.legs[l].entry_price *
                          (IF state'.legs[l].action = "BUY"
                           THEN 100 - state'.legs[l].sl_pct
                           ELSE 100 + state'.legs[l].sl_pct)
          /\ (/\ l \in DOMAIN state.legs
              /\ \/ state'.legs[l].entry_price # state.legs[l].entry_price
                 \/ state'.legs[l].sl_price # state.legs[l].sl_price)
                => (EntryReturns(l) /\ task[l].res = "ok"
                        /\ state'.legs[l].entry_price = task[l].price)
      ]_vars

C15_Witness ==
    /\ ev = Ev("entry", "pe")
    /\ state.legs["pe"].status = "ACTIVE"
    /\ state.legs["pe"].entries_count = 2
    /\ state.legs["pe"].entry_price = 150
    /\ state.legs["pe"].sl_price = 180

C18_FailedSelectionLeavesState ==
    [][ ev'.op = "select_fail" => state' = state ]_vars

(* C19: with target = straddle * pct / 100, the candidate chosen from a     *)
(* non-empty list has the least |price - target| of all candidates and is   *)
(* the first one with that distance; from an empty list nothing is chosen. *)
C19_ClosestCandidate ==
    (calc.fn \in {"find_leg", "get_closest_match"} /\ calc.done)
        => LET n == Len(calc.cands)
               dist(i) == Abs(calc.cands[i] * 100 - calc.straddle * calc.pct)
           IN IF n = 0 THEN calc.out = 0
              ELSE /\ calc.out \in 1..n
                   /\ \A j \in 1..n : dist(calc.out) <= dist(j)
                   /\ \A j \in 1..n : j < calc.out => dist(j) > dist(calc.out)

C19_Witness ==
    /\ calc.fn = "find_leg"
    /\ calc.done
    /\ calc.straddle = 500
    /\ calc.pct = 10
    /\ calc.cands = <<70, 40, 60>>
    /\ calc.out = 2

(* C20: for positive integers spot and step, round(spot / step) * step is a *)
(* multiple of step at most step / 2 away from spot.                       *)
C20_AtmNearestStrike ==
    (calc.fn = "atm_strike" /\ calc.done)
        => /\ calc.out % calc.step = 0
           /\ 2 * Abs(calc.out - calc.spot) <= calc.step

C20_Witness ==
    /\ calc.fn = "atm_strike"
    /\ calc.done
    /\ calc.spot = 59137
    /\ calc.step = 100
    /\ calc.out = 59100

(* C21: a successful strike selection writes every configured leg that has *)
(* a candidate as a fresh WAITING_RANGE leg (zero range, zero entry and    *)
(* stop-loss price, entries_count 0), leaves every other leg as it was     *)
(* (absent, or its placeholder), and succeeds - the phase becomes          *)
(* MONITORING_RANGE - even when no leg was picked.                         *)
C21_SelectionWritesPickedLegs ==
    [][ev'.op = "select_ok" =>
        /\ state'.status = "MONITORING_RANGE"
        /\ \A l \in Legs :
              IF l \in ev'.picked
              THEN /\ l \in DOMAIN state'.legs
                   /\ state'.legs[l].status = "WAITING_RANGE"
                   /\ state'.legs[l].range_high = 0
                   /\ state'.legs[l].range_low = 0
                   /\ state'.legs[l].entry_price = 0
                   /\ state'.legs[l].sl_price = 0
                   /\ state'.legs[l].entries_count = 0
              ELSE IF l \in DOMAIN state.legs
                   THEN l \in DOMAIN state'.legs /\ state'.legs[l] = state.legs[l]
                   ELSE l \notin DOMAIN state'.legs]_vars

C21_Witness ==
    /\ ev.op = "select_ok"
    /\ ev.picked = {"ce"}
    /\ state.legs["ce"].status = "WAITING_RANGE"
    /\ state.legs["pe"] = Placeholder("pe")
    /\ state.status = "MONITORING_RANGE"

(* C22: range finalization stores the high/low on every leg for which one  *)
(* is found and moves it from WAITING_RANGE to WAITING_ENTRY, leaves every *)
(* other leg unchanged, and returns true iff at least one leg was          *)
(* finalized.                                                              *)
C22_FinalizationPerLeg ==
    [][ev'.op = "finalize" =>
        /\ DOMAIN state'.legs = DOMAIN state.legs
        /\ \A l \in DOMAIN state.legs :
              IF l \in ev'.found
              THEN /\ state.legs[l].status = "WAITING_RANGE"
                   /\ state'.legs[l] =
                        [state.legs[l] EXCEPT !["status"] = "WAITING_ENTRY",
                                              !["range_high"] = 100,
                                              !["range_low"] = 80]
              ELSE state'.legs[l] = state.legs[l]
        /\ ev'.ret <=> (\E l \in DOMAIN state.legs :
                          /\ state.legs[l].status = "WAITING_RANGE"
                          /\ state'.legs[l].status = "WAITING_ENTRY")]_vars

C22_Witness ==
    /\ ev.op = "finalize"
    /\ ev.found = {"pe"}
    /\ ev.ret
    /\ state.legs["pe"].status = "WAITING_ENTRY"
    /\ state.legs["pe"].range_high = 100
    /\ state.legs["ce"].status = "WAITING_RANGE"

(* C23: while paper trading, startup does not log in to the broker, no     *)
(* entry or exit calls the order gateway (every order step yields the      *)
(* synthetic paper result and the gateway records nothing), and every      *)
(* triggered entry performs its transition: the leg becomes ACTIVE with    *)
(* the trigger price as entry price and entries_count one higher.          *)
C23_PaperNeverCallsGateway ==
    [][paper =>
        /\ ev'.op = "start" => ~ev'.login
        /\ \A l \in Legs :
              /\ (task[l].st = "call" /\ task'[l].st = "ret")
                    => task'[l].res = "paper"
              /\ EntryReturns(l) =>
                    /\ state'.legs[l].status = "ACTIVE"
                    /\ state'.legs[l].entry_price = task[l].price
                    /\ state'.legs[l].entries_count = state.legs[l].entries_count + 1
        /\ gwEntries' = Zero /\ gwExits' = Zero /\ gwFills' = Zero]_vars

C23_Witness ==
    /\ paper
    /\ ev = Ev("entry", "ce")
    /\ state.legs["ce"].status = "ACTIVE"
    /\ state.legs["pe"].status = "EXITED"
    /\ gwEntries = Zero
    /\ gwExits = Zero

(* C24: an error raised inside a task of a tick is caught by the loop: the *)
(* loop goes to its 5 s sleep, and a further tick follows.                 *)
C24_LoopSurvivesErrors ==
    /\ [][ev'.op = "error" => pc' = "cooldown"]_vars
    /\ (ev.op = "error") ~> (ev.op = "cooldown" /\ pc = "loop")

C24_Witness ==
    /\ ev = Ev("error", "ce")
    /\ pc = "cooldown"
    /\ task["pe"].st = "call"

(* C25: when the gateway does not answer, an order call ends by its        *)
(* timeout and is treated as a failed order (a timed-out entry leaves the  *)
(* leg as it was), the tick reaches its sleep with every evaluation        *)
(* finished, and the next tick starts at the head of the loop.             *)
C25_TickEndsWithoutGateway ==
    /\ [][\A l \in Legs :
            (EntryReturns(l) /\ task[l].res = "timeout")
                => state'.legs[l] = state.legs[l]]_vars
    /\ (gateway = "down" /\ \E l \in Legs : task[l].st = "call")
          ~> (AllJoined /\ pc \in {"sleep", "cooldown"})
    /\ (gateway = "down" /\ \E l \in Legs : task[l].st = "call")
          ~> (AllJoined /\ pc = "loop")

C25_Witness ==
    /\ gateway = "down"
    /\ pc = "mon_run"
    /\ task["ce"].st = "ret"
    /\ task["ce"].res = "timeout"
    /\ task["pe"].st = "call"

LegStatuses ==
    {"WAITING_RANGE", "WAITING_ENTRY", "ACTIVE", "WAITING_REENTRY", "EXITED", "DONE"}

(* C26 (as claimed): every leg stored in the state, the placeholder legs   *)
(* created at startup included, has one of the six leg statuses.           *)
C26_LegStatusInSet ==
    \A l \in DOMAIN state.legs : state.legs[l].status \in LegStatuses

(* C26 (amended): every leg stored in the state either has one of the six  *)
(* leg statuses, or is a placeholder leg created at startup, whose status  *)
(* is IDLE and whose token is 0; the same holds of the legs in the file.   *)
C26_LegStatusOrPlaceholder ==
    /\ \A l \in DOMAIN state.legs :
          \/ state.legs[l].status \in LegStatuses /\ state.legs[l].token # 0
          \/ state.legs[l].status = "IDLE" /\ state.legs[l].token = 0
    /\ \A l \in DOMAIN FileState.legs :
          \/ FileState.legs[l].status \in LegStatuses /\ FileState.legs[l].token # 0
          \/ FileState.legs[l].status = "IDLE" /\ FileState.legs[l].token = 0

C26_Witness ==
    /\ DOMAIN state.legs = Legs
    /\ DOMAIN FileState.legs = Legs
    /\ state.legs["ce"].status = "IDLE"
    /\ state.legs["pe"].status = "DONE"
    /\ FileState.legs["ce"].status = "IDLE"

(* C27 (as claimed): for every configured time HH:MM and window width w,   *)
(* the windowed task runs exactly when the clock lies in                   *)
(* [HH:MM, HH:MM + w minutes), also when MM + w >= 60, and computing the   *)
(* window never raises.                                                    *)
C27_WindowExactNoError ==
    (calc.fn = "window_task" /\ calc.done) =>
        calc.out = (IF /\ calc.now >= calc.h * 60 + calc.m
                       /\ calc.now < calc.h * 60 + calc.m + calc.w
                    THEN "run" ELSE "skip")

C29_IdleEvaluationIsNoOp ==
    [][ /\ ev'.op = "monitor"
            => \A l \in DOMAIN state.legs :
                  (\/ ev'.pr[l] = 0
                   \/ state.legs[l].status \in {"EXITED", "DONE", "WAITING_RANGE"})
                      => /\ task'[l] = NoTask
                         /\ state'.legs[l] = state.legs[l]
        /\ (pc = "mon_run" /\ pc' # "boot")
            => /\ \A l \in DOMAIN state.legs :
                    task[l].st = "none"
                        => /\ task'[l].st = "none"
                           /\ state'.legs[l] = state.legs[l]
               /\ AllJoined => file' = file
        /\ (pc = "monitor" /\ state.status = "ACTIVE" /\ pc' # "boot")
            => (ev'.op = "monitor" /\ DOMAIN ev'.pr = Legs)
      ]_vars

C29_Witness ==
    /\ ev.op = "monitor"
    /\ pc = "mon_run"
    /\ AllJoined
    /\ \E l \in DOMAIN state.legs :
          state.legs[l].status = "ACTIVE" /\ ev.pr[l] = 0
    /\ \E l \in DOMAIN state.legs :
          state.legs[l].status = "EXITED" /\ ev.pr[l] = 150

C31_RangeEndGate ==
    [][ /\ (pc = "range" /\ pc' # "boot")
            => (ev'.op = "finalize"
                    <=> (state.status = "MONITORING_RANGE" /\ clock >= EndTime))
        /\ ev'.op = "finalize"
            => /\ pc = "range"
               /\ state'.status = "ACTIVE"
               /\ Len(file') = 1
               /\ json_load(file'[1]) = state'
               /\ pc' = "monitor"
        /\ (pc = "monitor" /\ pc' # "boot")
            => (ev'.op = "monitor" <=> state.status = "ACTIVE")
        /\ ev'.op = "monitor" => (pc = "monitor" /\ clock' = clock)
      ]_vars

C31_Witness ==
    /\ ev.op = "monitor"
    /\ DOMAIN state.legs = Legs
    /\ \A l \in Legs : state.legs[l].status = "WAITING_RANGE"
    /\ state.status = "ACTIVE"
    /\ FileState.status = "ACTIVE"
    /\ clock = EndTime

(* C32 (as claimed): within one day (midnight to midnight) strike          *)
(* selection succeeds at most once and range finalization runs at most     *)
(* once, whatever the configured windows, overlapping ones included.       *)
C32_OncePerDay ==
    today.selected <= 1 /\ today.finalized <= 1

(* C33: a tick that reads the run flag off goes straight to its sleep and  *)
(* from there to the next tick: no task is evaluated, the state and the    *)
(* state file stay as they are and no order call is started, whatever the  *)
(* clock and the legs' statuses.                                           *)
C33_FlagOffTickDoesNothing ==
    [][ /\ (pc = "loop" /\ ~running /\ ~running' /\ pc' # "boot")
            => /\ pc' = "sleep"
               /\ ev'.op = "none"
               /\ state' = state
               /\ file' = file
               /\ task' = NoTasks
        /\ (pc = "sleep" /\ pc' # "boot")
            => /\ pc' = "loop"
               /\ state' = state
               /\ file' = file
               /\ task' = NoTasks
      ]_vars

C33_Witness ==
    /\ ~running
    /\ pc = "sleep"
    /\ InExitWindow(clock)
    /\ state.status = "ACTIVE"
    /\ \E l \in DOMAIN state.legs :
          /\ state.legs[l].status = "ACTIVE"
          /\ state.legs[l].action = "BUY"
          /\ state.legs[l].sl_price > 0

(* C34 (as claimed): for every instrument map that has the configured      *)
(* instrument as a key, strike selection applies the map exactly once: it  *)
(* raises nothing, and queries the expiries, the ATM tokens and the        *)
(* candidate strikes for the symbol the map gives for the instrument.      *)
C34_MapAppliedOnce ==
    (calc.fn = "select_strikes_symbols" /\ calc.done) =>
        /\ ~calc.out.raised
        /\ calc.out.expiries = calc.mapping[calc.instrument]
        /\ calc.out.strikes = calc.mapping[calc.instrument]

(* C35 (as claimed): the exit order of a position mirrors the entry order  *)
(* that opened it - opposite direction, same quantity - also when the      *)
(* strategy was stopped, its lots multiplier changed and the strategy      *)
(* started again between the two.                                          *)
C35_ExitMirrorsEntry ==
    [][\A l \in Legs :
          (/\ task[l].st = "call" /\ task[l].kind = "exit" /\ task'[l].st = "ret"
           /\ ~paper /\ opened[l] # NoOrder)
              => /\ OrderParams("exit", state.legs[l], settings).action
                        = Opposite(opened[l].action)
                 /\ OrderParams("exit", state.legs[l], settings).qty
                        = opened[l].qty]_vars

C37_LegsLiveOnlyInActivePhase ==
    /\ pc = "loop" =>
          \A l \in DOMAIN state.legs :
              state.legs[l].status \in {"ACTIVE", "WAITING_ENTRY", "WAITING_REENTRY"}
                  => state.status = "ACTIVE"
    /\ \A l \in Legs :
          (task[l].st = "call" /\ task[l].kind = "entry") => state.status = "ACTIVE"

(* C38: a selected leg's status and entries_count agree in every state -   *)
(* WAITING_RANGE or WAITING_ENTRY with 0 entries, WAITING_REENTRY with 1,  *)
(* ACTIVE with 1 or 2 - and the count of a leg goes up only in the step of *)
(* execute_entry that received an order id, and then by exactly 1.         *)
C38_StatusAgreesWithCount ==
    /\ [](\A l \in DOMAIN state.legs :
            HasCount(state.legs[l]) =>
               LET leg == state.legs[l]
               IN /\ leg.status \in {"WAITING_RANGE", "WAITING_ENTRY"}
                        => leg.entries_count = 0
                  /\ leg.status = "WAITING_REENTRY" => leg.entries_count = 1
                  /\ leg.status = "ACTIVE" => leg.entries_count \in {1, 2})
    /\ [][\A l \in DOMAIN state.legs \cap DOMAIN state'.legs :
            (HasCount(state.legs[l]) /\ HasCount(state'.legs[l])) =>
               LET entered == /\ ev'.op = "entry" /\ ev'.leg = l
                              /\ task[l].res \in {"ok", "paper"}
               IN /\ entered => state'.legs[l].entries_count
                                    = state.legs[l].entries_count + 1
                  /\ state'.legs[l].entries_count > state.legs[l].entries_count
                        => entered]_vars

(* a leg is ACTIVE for the second time, after its re-entry *)
C38_Witness ==
    \E l \in DOMAIN state.legs :
        /\ HasCount(state.legs[l])
        /\ state.legs[l].status = "ACTIVE"
        /\ state.legs[l].entries_count = 2

(* C39 (as claimed): set_is_running changes only the is_running field of   *)
(* the stored configuration - the stored settings are the same before and  *)
(* after its write - under every interleaving with a concurrent            *)
(* update_config or set_is_running and also when its read of the file      *)
(* fails.                                                                  *)
C39_ToggleKeepsSettings ==
    [][ev'.op \in {"started", "stopped"} => settings' = settings]_vars

(* C40: with the run flag on and ticks going on, a tick of the ACTIVE      *)
(* phase that reads for an ACTIVE leg a live price breaching its stop-loss *)
(* performs the SL_HIT exit of that leg, which then is no longer ACTIVE,   *)
(* unless the exit raises; so an ACTIVE leg whose price is available and   *)
(* breaches the stop-loss on every tick eventually leaves ACTIVE.          *)
C40_BreachedLegLeavesActive ==
    \A l \in Legs :
        /\ (ev.op = "monitor" /\ IsActive(l) /\ Breached(l, ev.pr[l]))
              ~> \/ ev = Ev("sl_hit", l) /\ ~IsActive(l)
                 \/ ev = Ev("leg_error", l)
        /\ (running /\ state.status = "ACTIVE" /\ IsActive(l))
              ~> \/ ~IsActive(l)
                 \/ ev.op = "monitor" /\ ~Breached(l, ev.pr[l])
                 \/ ev.op \in {"error", "leg_error"}

(* the stop-loss exit of a leg whose live price breached it has been       *)
(* performed while the gateway did not answer                              *)
C40_Witness ==
    \E l \in Legs :
        /\ ev = Ev("sl_hit", l)
        /\ gateway = "down"
        /\ state.legs[l].status \in {"WAITING_REENTRY", "DONE"}

====
